---- MODULE Spec2Model ----
(***************************************************************************)
(* Model of the DocComparison pipeline.                                    *)
(*                                                                         *)
(*  - convert_to_markdown (src/src/app/converter.py): the conversion       *)
(*    cascade, Docling first, PyPDF2 text extraction as fallback.          *)
(*  - remove_arabic_chars and remove_duplicate_lines                       *)
(*    (src/src/app/text_utils.py): the script filter and the table-aware   *)
(*    line deduplication, on the text of the files they read and write.    *)
(*  - markdown_to_json (src/src/app/export.py): the JSON export.           *)
(*  - compare_files (src/src/app/compare.py) and the Comparison tab of     *)
(*    src/app.py, with difflib.unified_diff as the tab calls it.           *)
(*  - the "Process Documents" handler of src/app.py: the runs of the       *)
(*    browser sessions on the files of the one output directory.           *)
(*                                                                         *)
(* Texts are sequences of one-character strings.  Exception messages are   *)
(* sequences of fragments; Python's `"x" in error_str` is the test that    *)
(* the fragment "x" occurs in the message.                                 *)
(* A file write (Path.write_text) is atomic: it succeeds, or it raises     *)
(* and leaves the file as it was.                                          *)
(***************************************************************************)
EXTENDS Integers, Sequences, FiniteSets, TLC

VARIABLES
    \* ---- one call of convert_to_markdown(source_path, out_md_path) ----
    srcExists,   \* source_path.exists()
    srcEmpty,    \* the source file has zero bytes
    outGiven,    \* out_md_path was passed (is not None)
    outFile,     \* content of the file at out_md_path (Absent: no such file)
    outFile0,    \* content of that file when the call started
    pc,          \* position of the call in the cascade
    error_str,   \* str(e) of the exception caught at converter.py:72
    ret,         \* the returned Markdown (None: nothing returned)
    raised,      \* the exception that left the call (NoError: none)
    log,         \* the records the call handed to logger, in order
    attempts,    \* history: the engine invocations made, with their outcome
    \* ---- remove_duplicate_lines(input_file, output_file) ----
    input_file,  \* text of input_file
    output_file, \* text of output_file (Absent before the first run)
    out_lines,   \* the list out_lines the last run built
    runs,        \* how many times the dedup ran on this chain of files
    \* ---- markdown_to_json(input_file, output_file) ----
    unique_lines, \* the list unique_lines of the export
    \* ---- the Comparison tab (app.py:161-236) ----
    md1_content, \* text of the file at session_state.md1_path
    md2_content, \* text of the file at session_state.md2_path
    run_comparison, \* the checkbox "Run comparison"
    tab,         \* "ready": not rendered yet; "shown"; "disabled"
    same,        \* the verdict of compare_files (None before it ran)
    diff_lines,  \* the list diff_lines (<<>> while none was computed)
    diff_text,   \* the text handed to st.code (None: no diff is shown)
    more,        \* <<k>>: "k more differences" is shown; <<>>: it is not
    prev_same,   \* history: <<v>>, the verdict v on the exchanged pair
    \* ---- the "Process Documents" handler (app.py:89-147), per session ----
    fs,          \* the files of OUTPUT_DIR: path -> text (Absent: no file)
    now,         \* the clock datetime.now() reads, in ticks
    documents,   \* the files the users have at hand to upload
    left,        \* how many presses of the button are still to come
    uploads,     \* session -> <<file1, file2>> of its run
    step,        \* session -> position of its run in Steps (0: no run)
    md1_path,    \* session -> the local md1_path of its run
    md2_path,    \* session -> the local md2_path of its run
    session_state, \* session -> st.session_state, a dict of its keys
    run,         \* history: session -> the identity of its run
    done,        \* history: session -> the steps its run has completed
    written,     \* history: session -> the files its run has written
    converted,   \* history: session -> the two texts its run converted
    produced,    \* history: session -> the two texts its dedups wrote
    stored,      \* history: session -> the run that assigned the paths
    src          \* history: path -> how the file was last written

convVars == <<srcExists, srcEmpty, outGiven, outFile, outFile0, pc,
              error_str, ret, raised, log, attempts>>
dedupVars == <<input_file, output_file, out_lines, runs>>
exportVars == <<unique_lines>>
compareVars == <<md1_content, md2_content, run_comparison, tab, same,
                 diff_lines, diff_text, more, prev_same>>
pipeVars == <<fs, now, documents, left, uploads, step, md1_path, md2_path,
              session_state, run, done, written, converted, produced, stored,
          src>>
otherVars == <<exportVars, compareVars, pipeVars>>
vars == <<srcExists, srcEmpty, outGiven, outFile, outFile0, pc,
          error_str, ret, raised, log, attempts,
          input_file, output_file, out_lines, runs,
          unique_lines,
          md1_content, md2_content, run_comparison, tab, same,
          diff_lines, diff_text, more, prev_same,
          fs, now, documents, left, uploads, step, md1_path, md2_path,
          session_state, run, done, written, converted, produced, stored,
          src>>

----------------------------------------------------------------------------
(* Bounds *)

MaxMdLen == 2
MaxPages == 2
MaxTextLen == 7
MaxRuns == 2
MaxRowLen == 7
MaxFilterLen == 3
MaxDocLen == 5
MaxCompareLen == 4
MaxMediumLines == 7
MaxLongLines == 100
MaxPipeLen == 3
MaxClock == 2
MaxPresses == 2
TicksPerSecond == 2

----------------------------------------------------------------------------
(* Constants of the program *)

\* app.py:228  unified_diff(..., n=1)
DiffContext == 1
\* app.py:232  diff_lines[:100]
DiffLimit == 100

----------------------------------------------------------------------------
(* Values *)

None == <<"None">>
Absent == <<"Absent">>
NoError == [type |-> "NoError", msg |-> <<>>]

\* the variables of the parts a specification does not run
ExportIdle == unique_lines = <<>>

CompareIdle ==
    /\ md1_content = <<>>
    /\ md2_content = <<>>
    /\ run_comparison = FALSE
    /\ tab = "idle"
    /\ same = None
    /\ diff_lines = <<>>
    /\ diff_text = None
    /\ more = <<>>
    /\ prev_same = <<>>
PipeIdle ==
    /\ fs = <<>>
    /\ now = 0
    /\ documents = {}
    /\ left = 0
    /\ uploads = <<>>
    /\ step = <<>>
    /\ md1_path = <<>>
    /\ md2_path = <<>>
    /\ session_state = <<>>
    /\ run = <<>>
    /\ done = <<>>
    /\ written = <<>>
    /\ converted = <<>>
    /\ produced = <<>>
    /\ stored = <<>>
    /\ src = <<>>
OtherIdle == ExportIdle /\ CompareIdle /\ PipeIdle

SeqsUpTo(S, n) == UNION {[1..k -> S] : k \in 0..n}

\* characters of converted Markdown: a letter and the two kinds of whitespace
MdChars == {"a", " ", "\n"}
MdTexts == SeqsUpTo(MdChars, MaxMdLen)

\* characters of the files the normalizer reads
Chars == {"a", "|", " ", "\n"}
Whitespace == {" ", "\n"}

----------------------------------------------------------------------------
(* Text helpers (Python str methods) *)

\* "frag" in error_str
Contains(msg, frag) == \E i \in DOMAIN msg : msg[i] = frag

RECURSIVE LStrip(_)
LStrip(s) ==
    IF s = <<>> THEN <<>>
    ELSE IF Head(s) \in Whitespace THEN LStrip(Tail(s))
    ELSE s

RECURSIVE RStrip(_)
RStrip(s) ==
    IF s = <<>> THEN <<>>
    ELSE IF s[Len(s)] \in Whitespace THEN RStrip(SubSeq(s, 1, Len(s) - 1))
    ELSE s

\* str.strip()
Strip(s) == RStrip(LStrip(s))

\* sep.join(parts)
RECURSIVE Join(_, _)
Join(parts, sep) ==
    IF parts = <<>> THEN <<>>
    ELSE IF Len(parts) = 1 THEN parts[1]
    ELSE LET h == Len(parts) \div 2
         IN  Join(SubSeq(parts, 1, h), sep) \o sep
             \o Join(SubSeq(parts, h + 1, Len(parts)), sep)

----------------------------------------------------------------------------
(* convert_to_markdown: what the two engines can answer *)

StructuredConverter == "StructuredConverter"
TextExtractionFallback == "TextExtractionFallback"
RasterOCRFallback == "RasterOCRFallback"

\* str(e) of exceptions Docling can raise
DoclingErrors ==
    { <<"[Errno 13] ", "Permission denied", ": model cache">>,
      <<"Conversion ended with status: ", "FAILURE">>,
      <<"Input document is not valid">> }

\* str(e) of exceptions the PyPDF2 block can raise
PyPdfErrors ==
    { <<"No module named PyPDF2">>, <<"EOF marker not found">> }

NoDocumentMsg == <<"No document returned from conversion">>
NoContentMsg == <<"No content extracted">>
CannotProcessMsg ==
    <<"Cannot process: OCR model download failed due to permissions. ",
      "This is a deployment environment limitation. ",
      "Please try with a text-based PDF or contact support.">>

Outcome(k, m, t, p) == [kind |-> k, msg |-> m, md |-> t, pages |-> p]

\* converter.convert(...) and export_to_markdown(): an exception, no result,
\* no document, or a Markdown string.  Nothing is converted out of a
\* zero-byte source.
PrimaryOutcomes(empty) ==
    {Outcome("raise", m, None, <<>>) : m \in DoclingErrors}
    \cup (IF empty THEN {}
          ELSE {Outcome("result_none", <<>>, None, <<>>),
                Outcome("document_none", <<>>, None, <<>>)}
               \cup {Outcome("md", <<>>, t, <<>>) : t \in MdTexts})

\* page.extract_text() of each page: a string or None
PageTexts == MdTexts \cup {None}

\* the PyPDF2 block: an exception, or the pages of the reader
FallbackOutcomes(empty) ==
    {Outcome("raise", m, None, <<>>) : m \in PyPdfErrors}
    \cup (IF empty THEN {}
          ELSE {Outcome("pages", <<>>, None, p) :
                    p \in SeqsUpTo(PageTexts, MaxPages)})

Attempt(engine, outcome) == [engine |-> engine, outcome |-> outcome]

----------------------------------------------------------------------------
(* convert_to_markdown: the decisions of the code *)

\* converter.py:55  result is None or result.document is None
NoDocument(o) == o.kind \in {"result_none", "document_none"}

\* the emptiness test without the strip()
NoContent_NoStrip(md) == md = <<>>

\* converter.py:61  not md or len(md.strip()) == 0
NoContent(md) == md = <<>> \/ Len(Strip(md)) = 0

\* the fallback test with its first alternative lost
ShouldFallback_FailureOnly(msg) == Contains(msg, "FAILURE")

\* converter.py:76  "Permission denied" in error_str or "FAILURE" in error_str
ShouldFallback(msg) ==
    Contains(msg, "Permission denied") \/ Contains(msg, "FAILURE")

\* converter.py:89  if text:
Truthy(text) == text # None /\ text # <<>>

\* converter.py:83-90  the page texts that are appended to text_content
TextContent(pages) == SelectSeq(pages, Truthy)

\* converter.py:93  "\n\n".join(text_content)
JoinPages(text_content) == Join(text_content, <<"\n", "\n">>)

\* converter.py:67-68 / 96-97  if out_md_path: out_md_path.write_text(md)
WriteOut(given, old, md) == IF given THEN md ELSE old

\* the exception the primary try block ends with (NoError: it returned md)
PrimaryException(o) ==
    IF o.kind = "raise" THEN [type |-> "Exception", msg |-> o.msg]
    ELSE IF NoDocument(o) THEN [type |-> "RuntimeError", msg |-> NoDocumentMsg]
    ELSE IF NoContent(o.md) THEN [type |-> "RuntimeError", msg |-> NoContentMsg]
    ELSE NoError

\* the write placed before the tests of converter.py:61
PrimaryWrites_BeforeCheck(o) == o.kind = "md"

\* converter.py:66-68 is reached only when nothing was raised before it
PrimaryWrites(o) == PrimaryException(o) = NoError

\* the existence test left out
InputFound_Always(exists) == TRUE

\* converter.py:42  source_path.exists()
InputFound(exists) == exists

\* the test of converter.py:92 made on the pages instead of text_content
FallbackReturns_AnyPage(o) == o.kind = "pages" /\ o.pages # <<>>

\* whether the PyPDF2 block returns Markdown (converter.py:92)
FallbackReturns(o) == o.kind = "pages" /\ TextContent(o.pages) # <<>>

----------------------------------------------------------------------------
(* convert_to_markdown: the steps of one call *)

\* converter.py:42-46
Validate ==
    /\ pc = "NotStarted"
    /\ IF ~InputFound(srcExists)
       THEN /\ raised' = [type |-> "FileNotFoundError",
                          msg |-> <<"Input not found">>]
            /\ pc' = "Failed"
            /\ log' = log
       ELSE /\ raised' = raised
            /\ pc' = "TryingEngine1"
            /\ log' = Append(log, "Starting conversion")
    /\ UNCHANGED <<srcExists, srcEmpty, outGiven, outFile, outFile0,
                   error_str, ret, attempts>>
    /\ UNCHANGED dedupVars
    /\ UNCHANGED otherVars

\* converter.py:49-76 and, when the exception is not one to fall back on,
\* 110-115
TryPrimary ==
    /\ pc = "TryingEngine1"
    /\ \E o \in PrimaryOutcomes(srcEmpty) :
         LET e == PrimaryException(o)
             started == Append(log, "Starting document conversion with Docling")
         IN  /\ attempts' = Append(attempts, Attempt(StructuredConverter, o))
             /\ outFile' = IF PrimaryWrites(o)
                           THEN WriteOut(outGiven, outFile, o.md)
                           ELSE outFile
             /\ IF e = NoError
                THEN /\ log' = Append(started, "Successfully converted")
                     /\ ret' = o.md
                     /\ pc' = "Succeeded"
                     /\ UNCHANGED <<error_str, raised>>
                ELSE IF ShouldFallback(e.msg)
                THEN /\ error_str' = e.msg
                     /\ log' = Append(started,
                                 "OCR failed, attempting text-only extraction")
                     /\ pc' = "TryingEngine2"
                     /\ UNCHANGED <<ret, raised>>
                ELSE /\ error_str' = e.msg
                     /\ log' = Append(started, "Error converting")
                     /\ raised' = e
                     /\ pc' = "Failed"
                     /\ UNCHANGED ret
    /\ UNCHANGED <<srcExists, srcEmpty, outGiven, outFile0>>
    /\ UNCHANGED dedupVars
    /\ UNCHANGED otherVars

\* converter.py:80-109 and 113-115
TryFallback ==
    /\ pc = "TryingEngine2"
    /\ \E o \in FallbackOutcomes(srcEmpty) :
         /\ attempts' = Append(attempts, Attempt(TextExtractionFallback, o))
         /\ IF FallbackReturns(o)
            THEN LET md == JoinPages(TextContent(o.pages))
                 IN  /\ log' = Append(log, "Successfully extracted text (no OCR)")
                     /\ outFile' = WriteOut(outGiven, outFile, md)
                     /\ ret' = md
                     /\ pc' = "Succeeded"
                     /\ UNCHANGED raised
            ELSE /\ log' = (IF o.kind = "raise"
                            THEN Append(log, "PyPDF2 fallback failed")
                            ELSE log) \o <<"Error converting">>
                 /\ raised' = [type |-> "RuntimeError", msg |-> CannotProcessMsg]
                 /\ pc' = "Failed"
                 /\ UNCHANGED <<outFile, ret>>
    /\ UNCHANGED <<srcExists, srcEmpty, outGiven, outFile0, error_str>>
    /\ UNCHANGED dedupVars
    /\ UNCHANGED otherVars

\* the files a call can find at out_md_path
OldFiles == {Absent, <<>>, <<"a">>}

DedupIdle ==
    /\ input_file = <<>>
    /\ output_file = Absent
    /\ out_lines = <<>>
    /\ runs = 0

Init ==
    /\ srcExists \in BOOLEAN
    /\ srcEmpty \in (IF srcExists THEN BOOLEAN ELSE {FALSE})
    /\ outGiven \in BOOLEAN
    /\ outFile0 \in OldFiles
    /\ outFile = outFile0
    /\ pc = "NotStarted"
    /\ error_str = <<>>
    /\ ret = None
    /\ raised = NoError
    /\ log = <<>>
    /\ attempts = <<>>
    /\ DedupIdle
    /\ OtherIdle

Next == Validate \/ TryPrimary \/ TryFallback

Spec == Init /\ [][Next]_vars

----------------------------------------------------------------------------
(* remove_duplicate_lines *)

\* str.split(c): the pieces between the occurrences of c
RECURSIVE Split(_, _)
Split(s, c) ==
    LET at == {i \in DOMAIN s : s[i] = c}
        Dist(i) == IF 2 * i >= Len(s) THEN 2 * i - Len(s) ELSE Len(s) - 2 * i
    IN  IF at = {} THEN <<s>>
        ELSE LET k == CHOOSE i \in at : \A j \in at : Dist(i) <= Dist(j)
             IN  Split(SubSeq(s, 1, k - 1), c)
                 \o Split(SubSeq(s, k + 1, Len(s)), c)

\* str.splitlines(keepends=False): no line after a final line break
SplitLines(s) ==
    LET p == Split(s, "\n")
    IN  IF p[Len(p)] = <<>> THEN SubSeq(p, 1, Len(p) - 1) ELSE p

\* text_utils.py:28  line.startswith("|")
IsTableRow(line) == line # <<>> /\ line[1] = "|"

\* the test without its second alternative
KeepCell_NoEmptyRule(cell_stripped, prev_cell) == cell_stripped # prev_cell

\* text_utils.py:37  cell_stripped != prev_cell or cell_stripped == ""
KeepCell(cell_stripped, prev_cell) ==
    cell_stripped # prev_cell \/ cell_stripped = <<>>

\* the loop comparing the cells as written, the strip() of line 35 left out
RECURSIVE DedupCells_NoStrip(_, _)
DedupCells_NoStrip(cells, prev_cell) ==
    IF cells = <<>> THEN <<>>
    ELSE LET cell == Head(cells)
             cell_stripped == cell
         IN  IF KeepCell(cell_stripped, prev_cell)
             THEN <<cell>> \o DedupCells_NoStrip(Tail(cells), cell_stripped)
             ELSE DedupCells_NoStrip(Tail(cells), prev_cell)

\* text_utils.py:31-39  the loop over the cells; prev_cell starts as None
RECURSIVE DedupCells(_, _)
DedupCells(cells, prev_cell) ==
    IF cells = <<>> THEN <<>>
    ELSE LET cell == Head(cells)
             cell_stripped == Strip(cell)
         IN  IF KeepCell(cell_stripped, prev_cell)
             THEN <<cell>> \o DedupCells(Tail(cells), cell_stripped)
             ELSE DedupCells(Tail(cells), prev_cell)

\* text_utils.py:28-41  the line as it goes to the duplicate test
DedupRow(line) ==
    IF IsTableRow(line)
    THEN Join(DedupCells(Split(line, "|"), None), <<"|">>)
    ELSE line

\* the loop with seen holding the lines as read, before the collapse
RECURSIVE DedupLines_SeenRaw(_, _)
DedupLines_SeenRaw(lines, seen) ==
    IF lines = <<>> THEN <<>>
    ELSE LET line == DedupRow(Head(lines))
         IN  IF Head(lines) \notin seen
             THEN <<line>> \o DedupLines_SeenRaw(Tail(lines),
                                                 seen \cup {Head(lines)})
             ELSE DedupLines_SeenRaw(Tail(lines), seen)

\* the loop with table rows appended without the duplicate test
RECURSIVE DedupLines_RowsUnchecked(_, _)
DedupLines_RowsUnchecked(lines, seen) ==
    IF lines = <<>> THEN <<>>
    ELSE LET line == DedupRow(Head(lines))
         IN  IF IsTableRow(Head(lines)) \/ line \notin seen
             THEN <<line>> \o DedupLines_RowsUnchecked(Tail(lines),
                                                       seen \cup {line})
             ELSE DedupLines_RowsUnchecked(Tail(lines), seen)

\* text_utils.py:26-46  the loop over the lines: seen and out_lines
RECURSIVE DedupLines(_, _)
DedupLines(lines, seen) ==
    IF lines = <<>> THEN <<>>
    ELSE LET line == DedupRow(Head(lines))
         IN  IF line \notin seen
             THEN <<line>> \o DedupLines(Tail(lines), seen \cup {line})
             ELSE DedupLines(Tail(lines), seen)

\* text_utils.py:48  "\n".join(out_lines) + "\n"
WriteLines(lines) == Join(lines, <<"\n">>) \o <<"\n">>

\* text_utils.py:18-49
RemoveDuplicateLines ==
    /\ output_file = Absent
    /\ runs < MaxRuns
    /\ LET lines == DedupLines(SplitLines(input_file), {})
       IN  /\ out_lines' = lines
           /\ output_file' = WriteLines(lines)
    /\ runs' = runs + 1
    /\ UNCHANGED input_file
    /\ UNCHANGED convVars
    /\ UNCHANGED otherVars

\* the written file is the input_file of the next run, which writes a
\* file of its own
Rerun ==
    /\ output_file # Absent
    /\ runs < MaxRuns
    /\ input_file' = output_file
    /\ output_file' = Absent
    /\ UNCHANGED <<out_lines, runs>>
    /\ UNCHANGED convVars
    /\ UNCHANGED otherVars

ConvertIdle ==
    /\ srcExists = TRUE
    /\ srcEmpty = FALSE
    /\ outGiven = FALSE
    /\ outFile0 = Absent
    /\ outFile = Absent
    /\ pc = "NotStarted"
    /\ error_str = <<>>
    /\ ret = None
    /\ raised = NoError
    /\ log = <<>>
    /\ attempts = <<>>

InitDedup ==
    /\ ConvertIdle
    /\ OtherIdle
    /\ input_file \in SeqsUpTo(Chars, MaxTextLen)
    /\ output_file = Absent
    /\ out_lines = <<>>
    /\ runs = 0

NextDedup == RemoveDuplicateLines \/ Rerun

SpecDedup == InitDedup /\ [][NextDedup]_vars

----------------------------------------------------------------------------
(* remove_duplicate_lines on a file that holds one line *)

\* characters of a line: two letters, the cell separator and the blank
RowChars == {"a", "b", "|", " "}

InitRow ==
    /\ ConvertIdle
    /\ OtherIdle
    /\ input_file \in SeqsUpTo(RowChars, MaxRowLen)
    /\ output_file = Absent
    /\ out_lines = <<>>
    /\ runs = 0

SpecRow == InitRow /\ [][NextDedup]_vars

----------------------------------------------------------------------------
(* remove_arabic_chars *)

\* the characters of the model with their code points; "U+0600" stands for
\* the one character of that code point
CodePointTable ==
    { <<"a", 97>>,
      <<"b", 98>>,
      <<" ", 32>>,
      <<"|", 124>>,
      <<"\n", 10>>,
      <<"U+05FF", 1535>>,
      <<"U+0600", 1536>>,
      <<"U+06FF", 1791>>,
      <<"U+0700", 1792>>,
      <<"U+074F", 1871>>,
      <<"U+0750", 1872>>,
      <<"U+077F", 1919>>,
      <<"U+0780", 1920>>,
      <<"U+089F", 2207>>,
      <<"U+08A0", 2208>>,
      <<"U+08FF", 2303>>,
      <<"U+0900", 2304>>,
      <<"U+FB4F", 64335>>,
      <<"U+FB50", 64336>>,
      <<"U+FDFF", 65023>>,
      <<"U+FE00", 65024>>,
      <<"U+FE6F", 65135>>,
      <<"U+FE70", 65136>>,
      <<"U+FEFF", 65279>>,
      <<"U+FF00", 65280>> }

CodePoint(c) == (CHOOSE e \in CodePointTable : e[1] = c)[2]

\* text_utils.py:5-7  the blocks 0600-06FF, 0750-077F, 08A0-08FF,
\* FB50-FDFF and FE70-FEFF, first and last code point of each
ArabicRanges ==
    { <<1536, 1791>>, <<1872, 1919>>, <<2208, 2303>>,
      <<64336, 65023>>, <<65136, 65279>> }

\* the character class [...] of the pattern
InArabicRanges(c) ==
    \E r \in ArabicRanges : r[1] <= CodePoint(c) /\ CodePoint(c) <= r[2]

\* the text after the match of [...]+ that starts at its first character
RECURSIVE SkipRun(_)
SkipRun(s) ==
    IF s # <<>> /\ InArabicRanges(Head(s)) THEN SkipRun(Tail(s)) ELSE s

\* re.sub with count=1: only the first match is replaced
RECURSIVE SubArabic_FirstMatchOnly(_)
SubArabic_FirstMatchOnly(s) ==
    IF s = <<>> THEN <<>>
    ELSE IF InArabicRanges(Head(s)) THEN SkipRun(s)
    ELSE <<Head(s)>> \o SubArabic_FirstMatchOnly(Tail(s))

\* text_utils.py:14  re.sub(_ARABIC_RANGES_PATTERN, "", content)
RECURSIVE SubArabic(_)
SubArabic(s) ==
    IF s = <<>> THEN <<>>
    ELSE IF InArabicRanges(Head(s)) THEN SubArabic(SkipRun(s))
    ELSE <<Head(s)>> \o SubArabic(Tail(s))

\* text_utils.py:9-16
RemoveArabicChars ==
    /\ output_file = Absent
    /\ runs < MaxRuns
    /\ output_file' = SubArabic(input_file)
    /\ runs' = runs + 1
    /\ UNCHANGED <<input_file, out_lines>>
    /\ UNCHANGED convVars
    /\ UNCHANGED otherVars

\* a letter, a line break, and the code points at and next to both ends of
\* each block
FilterChars ==
    { "a", "\n",
      "U+05FF", "U+0600", "U+06FF", "U+0700", "U+074F", "U+0750",
      "U+077F", "U+0780", "U+089F", "U+08A0", "U+08FF", "U+0900",
      "U+FB4F", "U+FB50", "U+FDFF", "U+FE00", "U+FE6F", "U+FE70",
      "U+FEFF", "U+FF00" }

InitFilter ==
    /\ ConvertIdle
    /\ OtherIdle
    /\ input_file \in SeqsUpTo(FilterChars, MaxFilterLen)
    /\ output_file = Absent
    /\ out_lines = <<>>
    /\ runs = 0

NextFilter == RemoveArabicChars \/ Rerun

SpecFilter == InitFilter /\ [][NextFilter]_vars

----------------------------------------------------------------------------
(* markdown_to_json *)

\* str.rstrip(c)
RECURSIVE RStripChar(_, _)
RStripChar(s, c) ==
    IF s # <<>> /\ s[Len(s)] = c
    THEN RStripChar(SubSeq(s, 1, Len(s) - 1), c)
    ELSE s

\* the loop with empty and whitespace-only lines left out
RECURSIVE ExportLines_SkipBlank(_, _)
ExportLines_SkipBlank(lines, seen) ==
    IF lines = <<>> THEN <<>>
    ELSE LET line == RStripChar(Head(lines), "\n")
         IN  IF line \notin seen /\ Strip(line) # <<>>
             THEN <<line>> \o ExportLines_SkipBlank(Tail(lines),
                                                    seen \cup {line})
             ELSE ExportLines_SkipBlank(Tail(lines), seen)

\* export.py:9-16  the loop over the lines: seen and unique_lines
RECURSIVE ExportLines(_, _)
ExportLines(lines, seen) ==
    IF lines = <<>> THEN <<>>
    ELSE LET line == RStripChar(Head(lines), "\n")
         IN  IF line \notin seen
             THEN <<line>> \o ExportLines(Tail(lines), seen \cup {line})
             ELSE ExportLines(Tail(lines), seen)

\* a character inside a JSON string (ensure_ascii=False)
JsonChar(c) ==
    IF c = "\"" THEN <<"\\", "\"">>
    ELSE IF c = "\\" THEN <<"\\", "\\">>
    ELSE <<c>>

RECURSIVE JsonString(_)
JsonString(s) ==
    IF s = <<>> THEN <<>> ELSE JsonChar(Head(s)) \o JsonString(Tail(s))

\* one item of the array: the indentation and the quoted string
JsonItem(s) == <<" ", " ", " ", " ", "\"">> \o JsonString(s) \o <<"\"">>

JsonItems(lines) == [i \in DOMAIN lines |-> JsonItem(lines[i])]

\* export.py:18  json.dumps(unique_lines, indent=4, ensure_ascii=False)
JsonDumps(lines) ==
    IF lines = <<>> THEN <<"[", "]">>
    ELSE <<"[", "\n">> \o Join(JsonItems(lines), <<",", "\n">>)
         \o <<"\n", "]">>

\* export.py:4-19
MarkdownToJson ==
    /\ output_file = Absent
    /\ LET lines == ExportLines(SplitLines(input_file), {})
       IN  /\ unique_lines' = lines
           /\ output_file' = JsonDumps(lines)
    /\ UNCHANGED <<input_file, out_lines, runs>>
    /\ UNCHANGED convVars
    /\ UNCHANGED <<compareVars, pipeVars>>

\* app.py:117-121  the file a path of the session names was written by
\* remove_duplicate_lines
NormalizedText(raw) == WriteLines(DedupLines(SplitLines(raw), {}))

InitExport ==
    /\ ConvertIdle
    /\ input_file \in {NormalizedText(raw) : raw \in SeqsUpTo(Chars, MaxDocLen)}
    /\ output_file = Absent
    /\ out_lines = <<>>
    /\ runs = 0
    /\ ExportIdle
    /\ CompareIdle
    /\ PipeIdle

NextExport == MarkdownToJson

SpecExport == InitExport /\ [][NextExport]_vars

----------------------------------------------------------------------------
(* difflib.unified_diff(a, b, lineterm='', n=1), as the comparison tab
   calls it.  Positions are Python's: a[i1:i2] is SubSeq(a, i1 + 1, i2). *)

Min(x, y) == IF x <= y THEN x ELSE y
Max(x, y) == IF x >= y THEN x ELSE y

Slice(s, lo, hi) == SubSeq(s, lo + 1, hi)

\* how many elements a[i:ahi] and b[j:bhi] have in common at their start
RECURSIVE MatchLen(_, _, _, _, _, _)
MatchLen(a, b, i, ahi, j, bhi) ==
    IF i < ahi /\ j < bhi /\ a[i + 1] = b[j + 1]
    THEN 1 + MatchLen(a, b, i + 1, ahi, j + 1, bhi)
    ELSE 0

\* SequenceMatcher.find_longest_match without junk: the longest block,
\* the one that starts earliest in a, then earliest in b
FindLongestMatch(a, b, alo, ahi, blo, bhi) ==
    LET starts == (alo..(ahi - 1)) \X (blo..(bhi - 1))
        size(p) == MatchLen(a, b, p[1], ahi, p[2], bhi)
        Better(p, q) ==
            \/ size(p) > size(q)
            \/ size(p) = size(q) /\ p[1] < q[1]
            \/ size(p) = size(q) /\ p[1] = q[1] /\ p[2] <= q[2]
    IN  IF starts = {} THEN <<alo, blo, 0>>
        ELSE LET best == CHOOSE p \in starts : \A q \in starts : Better(p, q)
             IN  IF size(best) = 0 THEN <<alo, blo, 0>>
                 ELSE <<best[1], best[2], size(best)>>

\* the recursion of get_matching_blocks, blocks in increasing position
RECURSIVE MatchingBlocksIn(_, _, _, _, _, _)
MatchingBlocksIn(a, b, alo, ahi, blo, bhi) ==
    LET m == FindLongestMatch(a, b, alo, ahi, blo, bhi)
    IN  IF m[3] = 0 THEN <<>>
        ELSE MatchingBlocksIn(a, b, alo, m[1], blo, m[2])
             \o <<m>>
             \o MatchingBlocksIn(a, b, m[1] + m[3], ahi, m[2] + m[3], bhi)

\* adjacent blocks are merged into one
RECURSIVE CollapseBlocks(_)
CollapseBlocks(blocks) ==
    IF Len(blocks) < 2 THEN blocks
    ELSE LET x == blocks[1]
             y == blocks[2]
         IN  IF x[1] + x[3] = y[1] /\ x[2] + x[3] = y[2]
             THEN CollapseBlocks(<<<<x[1], x[2], x[3] + y[3]>>>>
                                 \o SubSeq(blocks, 3, Len(blocks)))
             ELSE <<x>> \o CollapseBlocks(Tail(blocks))

\* SequenceMatcher.get_matching_blocks, with the closing (la, lb, 0)
MatchingBlocks(a, b) ==
    CollapseBlocks(MatchingBlocksIn(a, b, 0, Len(a), 0, Len(b)))
    \o <<<<Len(a), Len(b), 0>>>>

Opcode(tag, i1, i2, j1, j2) ==
    [tag |-> tag, i1 |-> i1, i2 |-> i2, j1 |-> j1, j2 |-> j2]

\* SequenceMatcher.get_opcodes
RECURSIVE OpcodesFrom(_, _, _)
OpcodesFrom(blocks, i, j) ==
    IF blocks = <<>> THEN <<>>
    ELSE LET ai == blocks[1][1]
             bj == blocks[1][2]
             size == blocks[1][3]
             change == IF i < ai /\ j < bj
                       THEN <<Opcode("replace", i, ai, j, bj)>>
                       ELSE IF i < ai THEN <<Opcode("delete", i, ai, j, bj)>>
                       ELSE IF j < bj THEN <<Opcode("insert", i, ai, j, bj)>>
                       ELSE <<>>
             equal == IF size > 0
                      THEN <<Opcode("equal", ai, ai + size, bj, bj + size)>>
                      ELSE <<>>
         IN  change \o equal \o OpcodesFrom(Tail(blocks), ai + size, bj + size)

Opcodes(a, b) == OpcodesFrom(MatchingBlocks(a, b), 0, 0)

\* get_grouped_opcodes: the unchanged ranges at both ends cut to n lines
TrimEnds(codes0, n) ==
    LET codes == IF codes0 = <<>> THEN <<Opcode("equal", 0, 1, 0, 1)>>
                 ELSE codes0
        f == codes[1]
        c1 == IF f.tag = "equal"
              THEN <<Opcode("equal", Max(f.i1, f.i2 - n), f.i2,
                            Max(f.j1, f.j2 - n), f.j2)>>
                   \o Tail(codes)
              ELSE codes
        l == c1[Len(c1)]
    IN  IF l.tag = "equal"
        THEN SubSeq(c1, 1, Len(c1) - 1)
             \o <<Opcode("equal", l.i1, Min(l.i2, l.i1 + n),
                         l.j1, Min(l.j2, l.j1 + n))>>
        ELSE c1

\* get_grouped_opcodes: a group ends at an unchanged range of more than
\* 2n lines; a group of one unchanged range is not yielded
RECURSIVE GroupsFrom(_, _, _)
GroupsFrom(codes, group, n) ==
    IF codes = <<>>
    THEN IF group # <<>> /\ ~(Len(group) = 1 /\ group[1].tag = "equal")
         THEN <<group>>
         ELSE <<>>
    ELSE LET c == codes[1]
         IN  IF c.tag = "equal" /\ c.i2 - c.i1 > n + n
             THEN <<Append(group, Opcode("equal", c.i1, Min(c.i2, c.i1 + n),
                                         c.j1, Min(c.j2, c.j1 + n)))>>
                  \o GroupsFrom(Tail(codes),
                                <<Opcode("equal", Max(c.i1, c.i2 - n), c.i2,
                                         Max(c.j1, c.j2 - n), c.j2)>>, n)
             ELSE GroupsFrom(Tail(codes), Append(group, c), n)

GroupedOpcodes(a, b, n) == GroupsFrom(TrimEnds(Opcodes(a, b), n), <<>>, n)

Digit(d) == <<"0", "1", "2", "3", "4", "5", "6", "7", "8", "9">>[d + 1]

\* str(n) of a natural number
RECURSIVE Decimal(_)
Decimal(n) ==
    IF n < 10 THEN <<Digit(n)>>
    ELSE Decimal(n \div 10) \o <<Digit(n % 10)>>

\* difflib._format_range_unified
FormatRangeUnified(start, stop) ==
    LET length == stop - start
    IN  IF length = 1 THEN Decimal(start + 1)
        ELSE Decimal(IF length = 0 THEN start ELSE start + 1)
             \o <<",">> \o Decimal(length)

Prefixed(c, lines) == [i \in DOMAIN lines |-> <<c>> \o lines[i]]

\* the lines of one opcode
OpcodeLines(a, b, c) ==
    IF c.tag = "equal" THEN Prefixed(" ", Slice(a, c.i1, c.i2))
    ELSE (IF c.tag \in {"replace", "delete"}
          THEN Prefixed("-", Slice(a, c.i1, c.i2)) ELSE <<>>)
         \o (IF c.tag \in {"replace", "insert"}
             THEN Prefixed("+", Slice(b, c.j1, c.j2)) ELSE <<>>)

RECURSIVE GroupLines(_, _, _)
GroupLines(a, b, group) ==
    IF group = <<>> THEN <<>>
    ELSE OpcodeLines(a, b, group[1]) \o GroupLines(a, b, Tail(group))

\* the "@@ -r1 +r2 @@" line of a group and the lines of its opcodes
HunkLines(a, b, group) ==
    LET first == group[1]
        last == group[Len(group)]
    IN  << <<"@", "@", " ", "-">> \o FormatRangeUnified(first.i1, last.i2)
           \o <<" ", "+">> \o FormatRangeUnified(first.j1, last.j2)
           \o <<" ", "@", "@">> >>
        \o GroupLines(a, b, group)

RECURSIVE AllHunkLines(_, _, _)
AllHunkLines(a, b, groups) ==
    IF groups = <<>> THEN <<>>
    ELSE HunkLines(a, b, groups[1]) \o AllHunkLines(a, b, Tail(groups))

\* app.py:228  list(unified_diff(md1_lines, md2_lines, lineterm='', n=1))
UnifiedDiff(a, b) ==
    LET groups == GroupedOpcodes(a, b, DiffContext)
    IN  IF groups = <<>> THEN <<>>
        ELSE << <<"-", "-", "-", " ">>, <<"+", "+", "+", " ">> >>
             \o AllHunkLines(a, b, groups)

----------------------------------------------------------------------------
(* compare_files and the Comparison tab *)

\* a comparison of the lengths only
CompareFiles_ByLength(c1, c2) == Len(c1) = Len(c2)

\* the test "c2 starts with c1"
CompareFiles_Prefix(c1, c2) ==
    Len(c1) <= Len(c2) /\ SubSeq(c2, 1, Len(c1)) = c1

\* compare.py:3-10  c1 == c2 on the two texts
CompareFiles(c1, c2) == c1 = c2

\* app.py:231  "\n".join(diff_lines[:100])
DiffText(lines) == Join(Slice(lines, 0, Min(Len(lines), DiffLimit)), <<"\n">>)

\* the count shown from 100 lines on
MoreDifferences_FromLimit(lines) ==
    IF Len(lines) >= DiffLimit THEN <<Len(lines) - DiffLimit>> ELSE <<>>

\* app.py:233-234  if len(diff_lines) > 100: ... len(diff_lines) - 100
MoreDifferences(lines) ==
    IF Len(lines) > DiffLimit THEN <<Len(lines) - DiffLimit>> ELSE <<>>

\* app.py:161-236  one rendering of the tab
ComparisonTab ==
    /\ tab = "ready"
    /\ IF ~run_comparison
       THEN /\ tab' = "disabled"
            /\ UNCHANGED <<same, diff_lines, diff_text, more>>
       ELSE /\ tab' = "shown"
            /\ same' = CompareFiles(md1_content, md2_content)
            /\ IF same'
               THEN UNCHANGED <<diff_lines, diff_text, more>>
               ELSE LET md1_lines == SplitLines(md1_content)
                        md2_lines == SplitLines(md2_content)
                        lines == UnifiedDiff(md1_lines, md2_lines)
                    IN  /\ diff_lines' = lines
                        /\ IF lines # <<>>
                           THEN /\ diff_text' = DiffText(lines)
                                /\ more' = MoreDifferences(lines)
                           ELSE UNCHANGED <<diff_text, more>>
    /\ UNCHANGED <<md1_content, md2_content, run_comparison, prev_same>>
    /\ UNCHANGED <<convVars, dedupVars, exportVars, pipeVars>>

\* app.py:89-142  the same two documents processed again, each uploaded in
\* the slot of the other: the session paths name the texts exchanged
ProcessExchanged ==
    /\ tab = "shown"
    /\ prev_same = <<>>
    /\ md1_content' = md2_content
    /\ md2_content' = md1_content
    /\ prev_same' = <<same>>
    /\ tab' = "ready"
    /\ same' = None
    /\ diff_lines' = <<>>
    /\ diff_text' = None
    /\ more' = <<>>
    /\ UNCHANGED run_comparison
    /\ UNCHANGED <<convVars, dedupVars, exportVars, pipeVars>>

\* characters of the short documents
CompareChars == {"a", "b", "\n"}

ShortDocs == {NormalizedText(raw) : raw \in SeqsUpTo(CompareChars, MaxCompareLen)}

\* the document of the lines "1", "2", ..., "n"
NumberedLines(n) == [i \in 1..n |-> Decimal(i)]

RECURSIVE WithoutLines(_, _, _)
WithoutLines(lines, drop, i) ==
    IF i > Len(lines) THEN <<>>
    ELSE (IF i \in drop THEN <<>> ELSE <<lines[i]>>)
         \o WithoutLines(lines, drop, i + 1)

\* pairs of documents of MaxMediumLines lines, the second with up to two
\* lines of the first left out
MediumPairs ==
    { <<WriteLines(NumberedLines(MaxMediumLines)),
        WriteLines(WithoutLines(NumberedLines(MaxMediumLines), {j, k}, 1))>> :
      j \in 0..MaxMediumLines, k \in 1..MaxMediumLines }

\* pairs of a long document and a document of one line, around the limit
\* of the lines shown
LongPairs ==
    { <<WriteLines(NumberedLines(n)), WriteLines(<<l>>)>> :
      n \in (DiffLimit - 6)..MaxLongLines, l \in {<<>>, <<"1">>} }

DocPairs == (ShortDocs \X ShortDocs) \cup MediumPairs \cup LongPairs

InitCompare ==
    /\ ConvertIdle
    /\ DedupIdle
    /\ ExportIdle
    /\ PipeIdle
    /\ \E p \in DocPairs :
          /\ md1_content = p[1]
          /\ md2_content = p[2]
    /\ run_comparison \in BOOLEAN
    /\ tab = "ready"
    /\ same = None
    /\ diff_lines = <<>>
    /\ diff_text = None
    /\ more = <<>>
    /\ prev_same = <<>>

NextCompare == ComparisonTab \/ ProcessExchanged

SpecCompare == InitCompare /\ [][NextCompare]_vars

----------------------------------------------------------------------------
(* The "Process Documents" handler and the files of OUTPUT_DIR *)

\* the browser sessions
Sessions == {"s1", "s2"}

\* convert_to_markdown(source, out_md_path) as one call: what it returns
\* and writes, given what the two engines answer on the source
ConvertToMarkdown(p, f) ==
    LET e == PrimaryException(p)
    IN  IF e = NoError THEN [ok |-> TRUE, md |-> p.md]
        ELSE IF ShouldFallback(e.msg) /\ FallbackReturns(f)
        THEN [ok |-> TRUE, md |-> JoinPages(TextContent(f.pages))]
        ELSE [ok |-> FALSE, md |-> None]

\* an uploaded file, as what the engines answer on it
Upload(p, f) == [primary |-> p, fallback |-> f]

\* the uploader is empty
NoFile ==
    Upload(Outcome("no_file", <<>>, None, <<>>),
           Outcome("no_file", <<>>, None, <<>>))

\* a path of OUTPUT_DIR: doc<doc>_<stamp><suffix>.md
Path(doc, stamp, suffix) == [doc |-> doc, stamp |-> stamp, suffix |-> suffix]

\* a local path that is not bound yet
NoPath == Path(0, 0, <<>>)

\* strftime('%Y%m%d_%H%M%S'): the second the tick lies in
Stamp(t) == t \div TicksPerSecond

\* app.py:108  resolve_output(f"doc1_{datetime.now().strftime(...)}.md")
ResolveOutput(doc, t) == Path(doc, Stamp(t), <<>>)

\* app.py:113  md1_path.parent / f"{md1_path.stem}_filtered.md"
WithSuffix(p, sfx) == [p EXCEPT !.suffix = Append(@, sfx)]

Paths ==
    {Path(d, t, x) : d \in {1, 2}, t \in 0..Stamp(MaxClock),
                     x \in SeqsUpTo({"_filtered", "_unique"}, 2)}

\* a run that deduplicates before it filters
Steps_DedupBeforeFilter ==
    <<"name1", "convert1", "dedup1", "filter1",
      "name2", "convert2", "dedup2", "filter2", "store">>

\* a run that assigns the session paths before it processes document 2
Steps_StoreBeforeDocument2 ==
    <<"name1", "convert1", "filter1", "dedup1", "store",
      "name2", "convert2", "filter2", "dedup2">>

\* app.py:108-142  the statements of a run, in their order
Steps ==
    <<"name1", "convert1", "filter1", "dedup1",
      "name2", "convert2", "filter2", "dedup2", "store">>

StepOf(s) == IF step[s] = 0 THEN "none" ELSE Steps[step[s]]

\* the position after the step at position k
AfterStep(k) == IF k = Len(Steps) THEN 0 ELSE k + 1

\* the document a step works on
DocOf(name) ==
    IF name \in {"name1", "convert1", "filter1", "dedup1"} THEN 1 ELSE 2

LocalPath(s, k) == IF k = 1 THEN md1_path[s] ELSE md2_path[s]

\* md1_path = p, md2_path = p
SetLocalPath(s, k, p) ==
    /\ md1_path' = IF k = 1 THEN [md1_path EXCEPT ![s] = p] ELSE md1_path
    /\ md2_path' = IF k = 2 THEN [md2_path EXCEPT ![s] = p] ELSE md2_path

\* the step of s is completed
Advance(s) ==
    /\ step' = [step EXCEPT ![s] = AfterStep(@)]
    /\ done' = [done EXCEPT ![s] = @ \cup {StepOf(s)}]

\* no text yet for either document
NoTexts == <<Absent, Absent>>

\* path.write_text(text), with the record of who wrote it out of what
WriteFile(s, p, text, stage, from) ==
    /\ fs' = [fs EXCEPT ![p] = text]
    /\ src' = [src EXCEPT ![p] = [stage |-> stage, from |-> from,
                                  run |-> run[s]]]
    /\ written' = [written EXCEPT ![s] = @ \cup {p}]

\* app.py:145-147  except Exception: the run ends with an error message
Fails(s) ==
    /\ step' = [step EXCEPT ![s] = 0]
    /\ UNCHANGED <<fs, src, written, done, md1_path, md2_path, converted,
                   produced>>

\* app.py:89-105  the button is pressed
Process(s) ==
    /\ step[s] = 0
    /\ left > 0
    /\ left' = left - 1
    /\ \E file1 \in documents \cup {NoFile}, file2 \in documents \cup {NoFile} :
          IF file1 = NoFile \/ file2 = NoFile
          THEN UNCHANGED <<uploads, step, md1_path, md2_path, run, done,
                           written, converted, produced>>
          ELSE /\ uploads' = [uploads EXCEPT ![s] = <<file1, file2>>]
               /\ step' = [step EXCEPT ![s] = 1]
               /\ md1_path' = [md1_path EXCEPT ![s] = NoPath]
               /\ md2_path' = [md2_path EXCEPT ![s] = NoPath]
               /\ run' = [run EXCEPT ![s] = <<s, left>>]
               /\ done' = [done EXCEPT ![s] = {}]
               /\ written' = [written EXCEPT ![s] = {}]
               /\ converted' = [converted EXCEPT ![s] = NoTexts]
               /\ produced' = [produced EXCEPT ![s] = NoTexts]
    /\ UNCHANGED <<fs, now, documents, session_state, stored, src>>
    /\ UNCHANGED <<convVars, dedupVars, exportVars, compareVars>>

\* app.py:108, 125  the path of the converted document, named by the second
NamePath(s) ==
    /\ StepOf(s) \in {"name1", "name2"}
    /\ SetLocalPath(s, DocOf(StepOf(s)), ResolveOutput(DocOf(StepOf(s)), now))
    /\ Advance(s)
    /\ UNCHANGED <<fs, now, documents, left, uploads, session_state, run,
                   written, converted, produced, stored, src>>
    /\ UNCHANGED <<convVars, dedupVars, exportVars, compareVars>>

\* app.py:109, 126  convert_to_markdown(source, md_path)
Convert(s) ==
    /\ StepOf(s) \in {"convert1", "convert2"}
    /\ LET k == DocOf(StepOf(s))
           r == ConvertToMarkdown(uploads[s][k].primary, uploads[s][k].fallback)
       IN  IF r.ok
           THEN /\ WriteFile(s, LocalPath(s, k), r.md, "convert", NoPath)
                /\ Advance(s)
                /\ converted' = [converted EXCEPT ![s][k] = r.md]
                /\ UNCHANGED <<md1_path, md2_path, produced>>
           ELSE Fails(s)
    /\ UNCHANGED <<now, documents, left, uploads, session_state, run, stored>>
    /\ UNCHANGED <<convVars, dedupVars, exportVars, compareVars>>

\* app.py:111-115, 128-132  remove_arabic_chars(md_path, filtered_path)
Filter(s) ==
    /\ StepOf(s) \in {"filter1", "filter2"}
    /\ LET k == DocOf(StepOf(s))
           in == LocalPath(s, k)
           out == WithSuffix(in, "_filtered")
       IN  IF fs[in] = Absent THEN Fails(s)
           ELSE /\ WriteFile(s, out, SubArabic(fs[in]), "filter", in)
                /\ SetLocalPath(s, k, out)
                /\ Advance(s)
                /\ UNCHANGED <<converted, produced>>
    /\ UNCHANGED <<now, documents, left, uploads, session_state, run, stored>>
    /\ UNCHANGED <<convVars, dedupVars, exportVars, compareVars>>

\* app.py:117-121, 134-138  remove_duplicate_lines(md_path, unique_path)
Dedup(s) ==
    /\ StepOf(s) \in {"dedup1", "dedup2"}
    /\ LET k == DocOf(StepOf(s))
           in == LocalPath(s, k)
           out == WithSuffix(in, "_unique")
       IN  IF fs[in] = Absent THEN Fails(s)
           ELSE /\ WriteFile(s, out, NormalizedText(fs[in]), "dedup", in)
                /\ SetLocalPath(s, k, out)
                /\ Advance(s)
                /\ produced' = [produced EXCEPT ![s][k] = NormalizedText(fs[in])]
                /\ UNCHANGED converted
    /\ UNCHANGED <<now, documents, left, uploads, session_state, run, stored>>
    /\ UNCHANGED <<convVars, dedupVars, exportVars, compareVars>>

\* app.py:141-142  the two paths are stored in the session
Store(s) ==
    /\ StepOf(s) = "store"
    /\ session_state' = [session_state EXCEPT ![s] =
                            [key \in {"md1_path", "md2_path"} |->
                                IF key = "md1_path" THEN md1_path[s]
                                ELSE md2_path[s]]]
    /\ stored' = [stored EXCEPT ![s] =
                     [run |-> run[s], done |-> done[s],
                      converted |-> converted[s], produced |-> produced[s]]]
    /\ Advance(s)
    /\ UNCHANGED <<fs, now, documents, left, uploads, md1_path, md2_path,
                   run, written, converted, produced, src>>
    /\ UNCHANGED <<convVars, dedupVars, exportVars, compareVars>>

\* read_text or write_text of a filter or dedup stage raises an OSError,
\* caught at app.py:145
StageError(s) ==
    /\ StepOf(s) \in {"filter1", "dedup1", "filter2", "dedup2"}
    /\ Fails(s)
    /\ UNCHANGED <<now, documents, left, uploads, session_state, run, stored>>
    /\ UNCHANGED <<convVars, dedupVars, exportVars, compareVars>>

\* time passes
Tick ==
    /\ now < MaxClock
    /\ now' = now + 1
    /\ UNCHANGED <<fs, documents, left, uploads, step, md1_path, md2_path,
                   session_state, run, done, written, converted, produced,
                   stored, src>>
    /\ UNCHANGED <<convVars, dedupVars, exportVars, compareVars>>

\* a file nobody has written
NoSrc == [stage |-> "none", from |-> NoPath, run |-> <<"none", 0>>]

\* nothing was stored in the session
NoRun ==
    [run |-> <<"none", 0>>, done |-> {},
     converted |-> NoTexts, produced |-> NoTexts]

\* the server has started: OUTPUT_DIR is empty, no session has a key
PipeStart ==
    /\ fs = [p \in Paths |-> Absent]
    /\ now = 0
    /\ uploads = [s \in Sessions |-> <<NoFile, NoFile>>]
    /\ step = [s \in Sessions |-> 0]
    /\ md1_path = [s \in Sessions |-> NoPath]
    /\ md2_path = [s \in Sessions |-> NoPath]
    /\ session_state = [s \in Sessions |-> <<>>]
    /\ run = [s \in Sessions |-> <<"none", 0>>]
    /\ done = [s \in Sessions |-> {}]
    /\ written = [s \in Sessions |-> {}]
    /\ converted = [s \in Sessions |-> NoTexts]
    /\ produced = [s \in Sessions |-> NoTexts]
    /\ stored = [s \in Sessions |-> NoRun]
    /\ src = [p \in Paths |-> NoSrc]

\* characters of the uploads: a letter, a character of the filtered ranges
\* and the line break
PipeChars == {"a", "U+0600", "\n"}

NoPages == Outcome("raise", <<"EOF marker not found">>, None, <<>>)

\* uploads Docling converts, uploads only PyPDF2 reads, and uploads no
\* engine reads
Documents ==
    {Upload(Outcome("md", <<>>, t, <<>>), NoPages) :
        t \in SeqsUpTo(PipeChars, MaxPipeLen)}
    \cup {Upload(Outcome("raise", m, None, <<>>), f) :
             m \in DoclingErrors,
             f \in {NoPages,
                    Outcome("pages", <<>>, None, <<<<"a">>, None, <<"U+0600">>>>)}}

\* an upload Docling converts and one it does not
FewDocuments ==
    {Upload(Outcome("md", <<>>, <<"a">>, <<>>), NoPages),
     Upload(Outcome("raise", <<"Input document is not valid">>, None, <<>>),
            NoPages)}

\* the steps of the session s1
NextRun ==
    \/ Process("s1")
    \/ NamePath("s1")
    \/ Convert("s1")
    \/ Filter("s1")
    \/ Dedup("s1")
    \/ Store("s1")
    \/ StageError("s1")

\* the steps of all sessions and of the clock
NextSessions ==
    \/ Tick
    \/ \E s \in Sessions : Process(s)
    \/ \E s \in Sessions : NamePath(s)
    \/ \E s \in Sessions : Convert(s)
    \/ \E s \in Sessions : Filter(s)
    \/ \E s \in Sessions : Dedup(s)
    \/ \E s \in Sessions : Store(s)
    \/ \E s \in Sessions : StageError(s)

\* one run of one session on any two documents
InitPipeline ==
    /\ ConvertIdle
    /\ DedupIdle
    /\ ExportIdle
    /\ CompareIdle
    /\ PipeStart
    /\ documents = Documents
    /\ left = 1

SpecPipeline == InitPipeline /\ [][NextRun]_vars

\* several runs, of one session or of two, on a few documents
InitSessions ==
    /\ ConvertIdle
    /\ DedupIdle
    /\ ExportIdle
    /\ CompareIdle
    /\ PipeStart
    /\ documents = FewDocuments
    /\ left = MaxPresses

SpecSessions == InitSessions /\ [][NextSessions]_vars

----------------------------------------------------------------------------
(* Vocabulary of the properties: the engine outcomes as the design classes *)

Ended == pc \in {"Succeeded", "Failed"}

NonBlank(t) == t # None /\ \E i \in DOMAIN t : t[i] \notin Whitespace

\* environment limitation: the model cache could not be written
ModelDownloadDenied(a) ==
    a.outcome.kind = "raise" /\ Contains(a.outcome.msg, "Permission denied")

\* content limitation of the primary converter: no document, or no text
EmptyOutput(a) ==
    /\ a.engine = StructuredConverter
    /\ \/ a.outcome.kind \in {"result_none", "document_none"}
       \/ a.outcome.kind = "md" /\ ~NonBlank(a.outcome.md)

\* content limitation of the text extraction: no page yields anything
NoTextLayer(a) ==
    /\ a.engine = TextExtractionFallback
    /\ a.outcome.kind = "pages"
    /\ \A i \in DOMAIN a.outcome.pages : a.outcome.pages[i] \in {None, <<>>}

EngineFailed(a) ==
    a.outcome.kind = "raise" \/ EmptyOutput(a) \/ NoTextLayer(a)

EngineSucceeded(a) == ~EngineFailed(a)

\* the text an engine hands over: the Markdown, or the texts of the pages
\* that have one, separated by an empty line
RECURSIVE PagesText(_)
PagesText(pages) ==
    IF pages = <<>> THEN <<>>
    ELSE IF Head(pages) \in {None, <<>>} THEN PagesText(Tail(pages))
    ELSE LET rest == PagesText(Tail(pages))
         IN  IF rest = <<>> THEN Head(pages)
             ELSE Head(pages) \o <<"\n", "\n">> \o rest

EngineText(a) ==
    IF a.outcome.kind = "md" THEN a.outcome.md ELSE PagesText(a.outcome.pages)

\* the engine the log names as the producer of the returned text
Producer ==
    IF Contains(log, "Successfully extracted text (no OCR)")
    THEN TextExtractionFallback
    ELSE IF Contains(log, "Successfully converted")
    THEN StructuredConverter
    ELSE "none"

FailedAttempts == SelectSeq(attempts, EngineFailed)

CascadeOrder ==
    <<StructuredConverter, TextExtractionFallback, RasterOCRFallback>>

----------------------------------------------------------------------------
(* Properties of convert_to_markdown *)

C2_ContentLimitationProceeds ==
    (Ended /\ Len(attempts) >= 1 /\ EmptyOutput(attempts[1]))
    => /\ Len(attempts) >= 2
       /\ attempts[2].engine = TextExtractionFallback

C4_PrefixInv ==
    /\ Len(attempts) <= Len(CascadeOrder)
    /\ \A i \in DOMAIN attempts : attempts[i].engine = CascadeOrder[i]
    /\ \A i \in 1..(Len(attempts) - 1) : EngineFailed(attempts[i])
    /\ pc = "Succeeded"
       => attempts # <<>> /\ EngineSucceeded(attempts[Len(attempts)])
    /\ pc = "Failed" => \A i \in DOMAIN attempts : EngineFailed(attempts[i])
    /\ pc = "NotStarted" => attempts = <<>>
    /\ pc = "TryingEngine1" => attempts = <<>>
    /\ pc = "TryingEngine2" => Len(attempts) = 1

C5_InputNotFound ==
    (~srcExists /\ pc # "NotStarted")
    => /\ pc = "Failed"
       /\ raised.type = "FileNotFoundError"
       /\ ret = None
       /\ attempts = <<>>
       /\ outFile = outFile0

C5_Witness ==
    /\ ~srcExists
    /\ pc = "Failed"
    /\ outGiven
    /\ outFile0 # Absent

\* C6: an input that exists and has zero bytes is rejected before any
\* engine is attempted on it.
C6_EmptyInputRejected ==
    (srcExists /\ srcEmpty) => attempts = <<>>

\* C7: the text a successful conversion returns is non-empty after
\* trimming whitespace, whichever engine produced it.
C7_ResultNonBlank ==
    pc = "Succeeded" => NonBlank(ret)

----------------------------------------------------------------------------
(* Properties of remove_duplicate_lines *)

\* C9: line deduplication is idempotent: the retained lines are all
\* retained when deduplicated again, and a run on the file a run wrote
\* writes the same file; table rows, empty lines and the empty input
\* included.
C9_DedupIdempotent ==
    /\ runs >= 1 => DedupLines(out_lines, {}) = out_lines
    /\ (runs >= 2 /\ output_file # Absent) => output_file = input_file

C9_Witness ==
    /\ runs = 2
    /\ output_file = <<"|", "a", "\n", "\n">>
    /\ out_lines = << <<"|", "a">>, <<>> >>

InputLines == SplitLines(input_file)

\* the input lines whose form after the collapse of their cells did not
\* occur earlier in the input
FirstOccurrences ==
    {i \in DOMAIN InputLines :
        \A j \in 1..(i - 1) : DedupRow(InputLines[j]) # DedupRow(InputLines[i])}

NthFirstOccurrence(k) ==
    CHOOSE i \in FirstOccurrences :
        Cardinality({j \in FirstOccurrences : j < i}) = k - 1

\* C10: the retained lines are pairwise different and are the input lines
\* (table rows with their cells collapsed) in the order of their first
\* occurrence; rows that are equal only after the collapse count as
\* repeats.
C10_UniqueInFirstOccurrenceOrder ==
    (runs >= 1 /\ output_file # Absent)
    => /\ \A i, j \in DOMAIN out_lines :
            i # j => out_lines[i] # out_lines[j]
       /\ Len(out_lines) = Cardinality(FirstOccurrences)
       /\ \A k \in DOMAIN out_lines :
            out_lines[k] = DedupRow(InputLines[NthFirstOccurrence(k)])
       /\ output_file = WriteLines(out_lines)
       /\ out_lines # <<>> => SplitLines(output_file) = out_lines

C10_Witness ==
    /\ runs = 1
    /\ input_file = <<"|", "a", "|", "a", "\n", "|", "a">>
    /\ out_lines = << <<"|", "a">> >>

----------------------------------------------------------------------------
(* Properties of the cells of a table row *)

\* the state after the first run on a file that holds one table row
RowDone ==
    /\ runs = 1
    /\ output_file # Absent
    /\ IsTableRow(input_file)

RowCells == Split(input_file, "|")
KeptCells == Split(out_lines[1], "|")

EmptyCell(cell) == \A i \in DOMAIN cell : cell[i] \in Whitespace

\* s can be obtained from t by leaving elements out
RECURSIVE IsSubseq(_, _)
IsSubseq(s, t) ==
    IF s = <<>> THEN TRUE
    ELSE IF t = <<>> THEN FALSE
    ELSE IF Head(s) = Head(t) THEN IsSubseq(Tail(s), Tail(t))
    ELSE IsSubseq(s, Tail(t))

\* the elements of s at the positions in idx
CellsAt(s, idx) ==
    LET F[i \in 0..Len(s)] ==
            IF i = 0 THEN <<>>
            ELSE F[i - 1] \o (IF i \in idx THEN <<s[i]>> ELSE <<>>)
    IN  F[Len(s)]

\* the cell differs from the cell immediately before it, surrounding
\* whitespace aside
NewContent(i) == i = 1 \/ Strip(RowCells[i]) # Strip(RowCells[i - 1])

\* the cell differs from the cell immediately before it in some character
NewCharacters(i) == i = 1 \/ RowCells[i] # RowCells[i - 1]

\* C11: in a table row no empty cell is removed, however many follow each
\* other, and no cell is removed because of a repeat further back: a cell
\* whose content differs from the cell immediately before it is retained,
\* also when it repeats an earlier cell.
C11_EmptyAndNonAdjacentKept ==
    RowDone
    => /\ Len(out_lines) = 1
       /\ IsSubseq(KeptCells, RowCells)
       /\ SelectSeq(KeptCells, EmptyCell) = SelectSeq(RowCells, EmptyCell)
       /\ IsSubseq(CellsAt(RowCells, {i \in DOMAIN RowCells : NewContent(i)}),
                   KeptCells)

C11_Witness ==
    /\ RowDone
    /\ input_file = <<"|", "|", "a", "|", "b", "|", "a">>
    /\ out_lines = <<input_file>>

\* C18 as stated: a cell that differs in any character from the cell
\* immediately before it, be it only in surrounding whitespace, is retained.
C18_ExactRepeatsOnly ==
    RowDone
    => IsSubseq(CellsAt(RowCells, {i \in DOMAIN RowCells : NewCharacters(i)}),
                KeptCells)

\* a cell stays when it is empty after strip() or differs, after strip(),
\* from the cell immediately before it
StaysAfterStrip(i) == EmptyCell(RowCells[i]) \/ NewContent(i)

\* C18 amended: a cell is collapsed exactly when its content after
\* stripping surrounding whitespace is non-empty and equals the stripped
\* content of the cell immediately before it; the retained cells keep
\* their whitespace.
C18_RepeatsAfterStrip ==
    RowDone
    => KeptCells = CellsAt(RowCells,
                           {i \in DOMAIN RowCells : StaysAfterStrip(i)})

C18_Witness ==
    /\ RowDone
    /\ input_file = <<"|", " ", "a", "|", "a", "|", "b">>
    /\ out_lines = << <<"|", " ", "a", "|", "b">> >>

----------------------------------------------------------------------------
(* Properties of remove_arabic_chars *)

Filtered(c) ==
    LET n == CodePoint(c)
    IN  \/ (1536 <= n /\ n <= 1791)
        \/ (1872 <= n /\ n <= 1919)
        \/ (2208 <= n /\ n <= 2303)
        \/ (64336 <= n /\ n <= 65023)
        \/ (65136 <= n /\ n <= 65279)

NotFiltered(c) == ~Filtered(c)

\* C12: the script filter deletes every character of the five blocks and
\* keeps every other character in its order, and it is idempotent: a run
\* on the file a run wrote writes the same file.
C12_FilterIdempotent ==
    /\ (runs >= 1 /\ output_file # Absent)
       => \A i \in DOMAIN output_file : NotFiltered(output_file[i])
    /\ (runs = 1 /\ output_file # Absent)
       => output_file = SelectSeq(input_file, NotFiltered)
    /\ (runs >= 2 /\ output_file # Absent) => output_file = input_file

C12_Witness ==
    /\ runs = 2
    /\ output_file = <<"a", "U+0700", "a">>
    /\ input_file = output_file

----------------------------------------------------------------------------
(* Properties of markdown_to_json *)

\* the strings of the written array: what stands between the quotes
JsonArrayStrings ==
    LET p == Split(output_file, "\"")
    IN  [i \in 1..((Len(p) - 1) \div 2) |-> p[2 * i]]

BlankLine(line) == \A i \in DOMAIN line : line[i] \in Whitespace

\* C17 as stated: the exported array holds the lines of the document in
\* order and no empty or whitespace-only string.
C17_NoBlankStrings ==
    output_file # Absent
    => /\ IsSubseq(JsonArrayStrings, SplitLines(input_file))
       /\ \A i \in DOMAIN JsonArrayStrings : ~BlankLine(JsonArrayStrings[i])

\* C17 amended: the exported array holds one string per line of the
\* document, in the document's order, the empty and the whitespace-only
\* lines included.
C17_EveryLineExported ==
    output_file # Absent
    => /\ JsonArrayStrings = SplitLines(input_file)
       /\ unique_lines = JsonArrayStrings

C17_Witness ==
    /\ output_file # Absent
    /\ input_file = <<"a", "\n", "\n", " ", "\n">>
    /\ unique_lines = << <<"a">>, <<>>, <<" ">> >>


----------------------------------------------------------------------------
(* The comparison tab *)

\* the line sequences the tab computes the diff over
Md1Lines == SplitLines(md1_content)
Md2Lines == SplitLines(md2_content)

\* C14: once the tab has compared two documents, the verdict "identical"
\* is true exactly when the unified diff of their line sequences is empty;
\* a verdict "different" comes with a non-empty diff on display and a
\* verdict "identical" with none.
C14_IdenticalIffDiffEmpty ==
    tab = "shown"
    => /\ (same = TRUE) <=> (UnifiedDiff(Md1Lines, Md2Lines) = <<>>)
       /\ (same = FALSE) => /\ diff_lines = UnifiedDiff(Md1Lines, Md2Lines)
                            /\ diff_lines # <<>>
                            /\ diff_text # None
       /\ (same = TRUE) => diff_text = None

\* two different documents of the same number of lines have been compared
C14_Witness ==
    /\ tab = "shown"
    /\ same = FALSE
    /\ Len(Md1Lines) = Len(Md2Lines)
    /\ Len(md1_content) = Len(md2_content)
    /\ diff_lines # <<>>

\* C15: the verdict on a pair is the verdict on the exchanged pair, and a
\* document compared with itself is identical.
C15_SymmetricReflexive ==
    tab = "shown"
    => /\ prev_same # <<>> => same = prev_same[1]
       /\ md1_content = md2_content => same = TRUE

\* a document and a proper beginning of it were compared in both orders
C15_Witness ==
    /\ tab = "shown"
    /\ prev_same = <<FALSE>>
    /\ Len(md1_content) # Len(md2_content)
    /\ \/ CompareFiles_Prefix(md1_content, md2_content)
       \/ CompareFiles_Prefix(md2_content, md1_content)

\* the lines of the text on display
ShownLines == Split(diff_text, "\n")

\* C16: of a diff of N lines the display holds the first min(N, 100), in
\* order; the count N - 100 of the lines left out is reported exactly when
\* N > 100, so that shown + omitted = N.
C16_DiffBounded ==
    (tab = "shown" /\ diff_lines # <<>>)
    => LET N == Len(diff_lines)
       IN  /\ diff_text # None
           /\ Len(ShownLines) = (IF N <= 100 THEN N ELSE 100)
           /\ ShownLines = SubSeq(diff_lines, 1, Len(ShownLines))
           /\ (more # <<>>) <=> (N > 100)
           /\ (more # <<>>) => /\ more[1] = N - 100
                               /\ Len(ShownLines) + more[1] = N
           /\ (more = <<>>) => Len(ShownLines) = N

\* a diff of more than 100 lines was shown
C16_Witness ==
    /\ tab = "shown"
    /\ Len(diff_lines) > 100
    /\ more # <<>>
    /\ Len(ShownLines) = 100


----------------------------------------------------------------------------
(* The pipeline and the session *)

PathKeys == {"md1_path", "md2_path"}

\* app.py:161  both keys are in the session: the results are on display
Displayed(s) == DOMAIN session_state[s] = PathKeys

\* the Markdown of document k as the run that stored the paths of s
\* converted it
ConvertedText(s, k) == stored[s].converted[k]

PipeDocOf(key) == IF key = "md1_path" THEN 1 ELSE 2

NoRepeatedLine(text) ==
    \A i, j \in DOMAIN SplitLines(text) :
        SplitLines(text)[i] = SplitLines(text)[j] => i = j

\* the file at p was written by a dedup out of a file written by a filter
\* out of a file written by a conversion
ConvertFilterDedup(p) ==
    /\ src[p].stage = "dedup"
    /\ src[src[p].from].stage = "filter"
    /\ src[src[src[p].from].from].stage = "convert"

\* the three files behind p were last written by the run r
WrittenBy(p, r) ==
    /\ src[p].run = r
    /\ src[src[p].from].run = r
    /\ src[src[src[p].from].from].run = r

\* C13: each document a session hands to the comparator and the exporter
\* was written by the dedup, out of the file the script filter wrote, out
\* of the file the conversion wrote; it holds no character of the filtered
\* ranges and no line twice, and where the storing run wrote the three
\* files it is the dedup of the filtered conversion result.
C13_ConvertFilterDedup ==
    \A s \in Sessions :
        Displayed(s)
        => \A key \in PathKeys :
              LET p == session_state[s][key]
              IN  /\ p \in Paths
                  /\ fs[p] # Absent
                  /\ ConvertFilterDedup(p)
                  /\ \A i \in DOMAIN fs[p] : NotFiltered(fs[p][i])
                  /\ NoRepeatedLine(fs[p])
                  /\ WrittenBy(p, stored[s].run)
                     => fs[p] = WriteLines(DedupLines(SplitLines(
                                   SelectSeq(ConvertedText(s, PipeDocOf(key)),
                                             NotFiltered)), {}))

\* a document whose lines all differ, and two of them differ no more once
\* the filter has run, went through the pipeline
C13_Witness ==
    /\ Displayed("s1")
    /\ NoRepeatedLine(ConvertedText("s1", 1))
    /\ ~NoRepeatedLine(SubArabic(ConvertedText("s1", 1)))
    /\ Len(SplitLines(fs[session_state["s1"]["md1_path"]]))
       < Len(SplitLines(ConvertedText("s1", 1)))

\* the six stages of a run
AllStages ==
    {"convert1", "filter1", "dedup1", "convert2", "filter2", "dedup2"}

\* the session paths of s were assigned by one run that had completed the
\* six stages, and name the files of its two dedups
C19_PairOfOneRun(s) ==
    session_state[s] # <<>>
    => /\ Displayed(s)
       /\ AllStages \subseteq stored[s].done
       /\ session_state[s]["md1_path"] \in Paths
       /\ session_state[s]["md2_path"] \in Paths
       /\ session_state[s]["md1_path"].doc = 1
       /\ session_state[s]["md2_path"].doc = 2
       /\ src[session_state[s]["md1_path"]].stage = "dedup"
       /\ src[session_state[s]["md2_path"]].stage = "dedup"

\* a step that changes the session paths assigns both, at the end of a run
\* that has completed the six stages
C19_AssignedTogether(s) ==
    session_state'[s] # session_state[s]
    => /\ StepOf(s) = "store"
       /\ AllStages \subseteq done[s]
       /\ session_state'[s]["md1_path"] = md1_path[s]
       /\ session_state'[s]["md2_path"] = md2_path[s]
       /\ DOMAIN session_state'[s] = PathKeys
       /\ stored'[s].run = run[s]

\* a run that ends before its last step leaves the session paths as they were
C19_FailureKeepsPaths(s) ==
    (step[s] # 0 /\ step'[s] = 0 /\ StepOf(s) # "store")
    => /\ session_state'[s] = session_state[s]
       /\ stored'[s] = stored[s]

\* C19: the two session paths are assigned together, by the last step of a
\* run whose six stages have succeeded; a run that fails leaves both as
\* they were; so the pair on display was always assigned by one run that
\* succeeded in full.
C19_SessionPaths ==
    /\ [](\A s \in Sessions : C19_PairOfOneRun(s))
    /\ [][\A s \in Sessions : C19_AssignedTogether(s)]_vars
    /\ [][\A s \in Sessions : C19_FailureKeepsPaths(s)]_vars

\* a session shows the pair of an earlier run of it, after a later run of
\* it has failed at document 2
C19_Witness ==
    \E s \in Sessions :
        /\ Displayed(s)
        /\ step[s] = 0
        /\ stored[s].run # run[s]
        /\ "dedup1" \in done[s]
        /\ "store" \notin done[s]

\* C20: two runs in progress at the same time have written no file in
\* common, and the two files a session reads for display were last written
\* by runs of that session, with the texts the storing run produced.
C20_NoSharedFile ==
    /\ \A s, t \in Sessions :
          (s # t /\ step[s] # 0 /\ step[t] # 0)
          => written[s] \cap written[t] = {}
    /\ \A s \in Sessions :
          Displayed(s)
          => /\ src[session_state[s]["md1_path"]].run[1] = s
             /\ src[session_state[s]["md2_path"]].run[1] = s
             /\ fs[session_state[s]["md1_path"]] = stored[s].produced[1]
             /\ fs[session_state[s]["md2_path"]] = stored[s].produced[2]

====
